---- MODULE Spec2Model ----
(***************************************************************************)
(* A model of the crypto demonstration pipeline:                           *)
(*   - crypto_ingestion_demo.py: QuestDBCryptoIngestion (table creation,   *)
(*     the four exchange fetchers, the bulk insert) and                    *)
(*     demonstrate_crypto_pipeline;                                        *)
(*   - crypto_analyst.py: ClaudeCryptoAnalyst (intent classification, SQL  *)
(*     templating, query execution, result formatting).                    *)
(*                                                                         *)
(* Numbers (Python floats) are modelled by integers; the values the        *)
(* exchanges quote are chosen so that every computation of the code is     *)
(* exact on them.  The network is the environment: each request's outcome  *)
(* is an input of the action that issues it.                               *)
(***************************************************************************)
EXTENDS Integers, Sequences, FiniteSets, TLC

VARIABLES
    \* ---- one call on a QuestDBCryptoIngestion object
    pc,          \* "idle" | "created" | "fetched" | "ingested"
    op,          \* the method called last ("none" before any call)
    symbols,     \* the symbols argument the caller passes to a fetcher
    crypto_data, \* the list the caller passed to ingest_crypto_data, after the call
    net,         \* the outcomes the network gave to that call's requests
    ret,         \* the value the call returned
    raised,      \* TRUE when the call raised to its caller
    requests,    \* the HTTP requests the call issued, in order
    logs,        \* the logger records the call wrote, in order
    \* ---- demonstrate_crypto_pipeline
    ppc,               \* position in demonstrate_crypto_pipeline
    calls,             \* the methods it has invoked so far, in order
    table_created,     \* what create_crypto_table returned to it
    fetched,           \* binance_data, coinbase_data, ... by source
    all_crypto_data,   \* the accumulated list
    insert_arg,        \* the lists handed to ingest_crypto_data, in order
    db_requests,       \* the requests it made on the QuestDB session, in order
    praised,           \* TRUE when a call raised into demonstrate_crypto_pipeline
    \* ---- one ask_claude call on a ClaudeCryptoAnalyst object
    apc,           \* "idle" | "analyzed" | "generated" | "executed" | "done"
    question,      \* user_question
    analysis,      \* query_analysis
    sql_query,     \* sql_query
    qresponse,     \* what the network answered to the query request
    results,       \* results
    response,      \* the text ask_claude returns
    araised,       \* TRUE when ask_claude raised to its caller
    arequests,     \* the requests ask_claude issued, in order
    \* ---- the database the analyst queries
    crypto_prices  \* the rows of table crypto_prices

fetchVars == <<pc, op, symbols, crypto_data, net, ret, raised, requests, logs>>
pipeVars == <<ppc, calls, table_created, fetched, all_crypto_data, insert_arg, db_requests, praised>>
askVars == <<apc, question, analysis, sql_query, qresponse, results, response,
             araised, arequests>>
vars == <<fetchVars, pipeVars, askVars, crypto_prices>>

-----------------------------------------------------------------------------
(* Bounds *)

\* longest symbol list a caller passes to a fetcher
MaxSyms == 2

\* most words in a question
MaxWords == 2

\* most rows in the dataset of a query response
MaxRows == 4

-----------------------------------------------------------------------------
(* Helpers on sequences *)

Range(s) == {s[i] : i \in 1..Len(s)}

SeqsUpTo(S, n) == UNION {[1..k -> S] : k \in 0..n}

RECURSIVE Join(_, _)
\* sep.join(parts)
Join(parts, sep) ==
    IF parts = <<>> THEN ""
    ELSE IF Len(parts) = 1 THEN parts[1]
    ELSE parts[1] \o sep \o Join(Tail(parts), sep)

\* Python's "w in s" on strings
Contains(s, w) == \E i \in 0..(Len(s) - Len(w)) : SubSeq(s, i + 1, i + Len(w)) = w

\* any(word in s for word in words)
AnyIn(s, words) == \E w \in words : Contains(s, w)

StartsWith(s, w) == Len(w) <= Len(s) /\ SubSeq(s, 1, Len(w)) = w
EndsWith(s, w) == Len(w) <= Len(s) /\ SubSeq(s, Len(s) - Len(w) + 1, Len(s)) = w

-----------------------------------------------------------------------------
(* The market: what the exchanges quote. *)

\* the canonical symbols every exchange lists
Listed == {"BTC", "ETH", "ADA", "SOL"}

\* symbols a caller may pass: listed ones and one no exchange lists
CallerSymbols == {"BTC", "ETH", "XYZ"}

SymbolLists == SeqsUpTo(CallerSymbols, MaxSyms)

QuotePrice(sym) == CASE sym = "BTC" -> 60000
                     [] sym = "ETH" -> 4000
                     [] sym = "ADA" -> 2000
                     [] sym = "SOL" -> 6000
                     [] OTHER -> 0
QuoteBid(sym) == QuotePrice(sym) - 10
QuoteAsk(sym) == QuotePrice(sym) + 30
QuoteVolume(sym) == QuotePrice(sym) \div 4
QuoteMarketCap(sym) == QuotePrice(sym) * 1000

\* datetime.utcnow().isoformat() + 'Z'
UtcNowIso == "2024-01-01T00:00:00"
Timestamp == UtcNowIso \o "Z"

Record(sym, exch, price, volume, bid, ask, spread, mcap) ==
    [timestamp |-> Timestamp, symbol |-> sym, exchange |-> exch,
     price |-> price, volume |-> volume, bid |-> bid, ask |-> ask,
     spread |-> spread, market_cap |-> mcap]

Request(api, endpoint, param, pos) ==
    [api |-> api, endpoint |-> endpoint, param |-> param, pos |-> pos]

Log(level, source, about) == [level |-> level, source |-> source, about |-> about]

\* The exception classes the modelled failures raise, and what an except
\* clause catches: "except Exception" and a bare "except:" catch each of
\* them, "except requests.exceptions.HTTPError" only the HTTPError.
ExceptionClasses == {"ConnectionError", "HTTPError", "ValueError", "KeyError", "TypeError",
                     "AttributeError"}
CatchesHTTPErrorOnly(handler, cls) == cls = "HTTPError"
Catches(handler, cls) ==
    CASE handler = "HTTPError" -> cls = "HTTPError"
      [] handler \in {"Exception", "bare"} -> cls \in ExceptionClasses
      [] OTHER -> FALSE

\* The state of a fetcher's run: the list it builds, the requests issued,
\* the log records written, stop (the loop was left by break or by an
\* exception that reached the function's caller) and raised (the latter).
Acc0 == [data |-> <<>>, requests |-> <<>>, logs |-> <<>>, stop |-> FALSE, raised |-> FALSE]
AddReq(acc, r) == [acc EXCEPT !.requests = Append(@, r)]
AddLog(acc, l) == [acc EXCEPT !.logs = Append(@, l)]
AddRec(acc, r) == [acc EXCEPT !.data = Append(@, r)]
BreakNever(acc) == acc
Break(acc) == [acc EXCEPT !.stop = TRUE]
Raise(acc) == [acc EXCEPT !.stop = TRUE, !.raised = TRUE]

\* An exception of class cls raised under a try whose only handler is
\* "except Exception as e: logger.error(...)".
Handled(acc, cls, l) == IF Catches("Exception", cls) THEN AddLog(acc, l) ELSE Raise(acc)

-----------------------------------------------------------------------------
(* fetch_binance_data *)

\* What the network answers to the requests made for one symbol.
\*   price : "exc"     requests.get raised (connection error, timeout)
\*           "451"     status 451
\*           "err"     another error status (raise_for_status raises)
\*           "notjson" status 200, response.json() raises
\*           "noprice" status 200, a JSON body without a usable 'price'
\*           "ok"      status 200, {'price': ...}
\*   ticker: "exc" | "non200" | "badvol" (a 'volume' float() rejects) | "ok"
\*   depth : "exc" | "non200" | "bids" | "asks" | "both" (the sides the book holds)
\*   "-" marks a request the code does not reach.
\* Only a listed symbol is answered with status 200 by the price endpoint.
BinanceOutcomes(sym) ==
    [price : {"exc", "451", "err", "notjson"}, ticker : {"-"}, depth : {"-"}]
    \cup (IF sym \in Listed
          THEN [price : {"ok", "noprice"}, ticker : {"exc"}, depth : {"-"}]
               \cup [price : {"ok"}, ticker : {"badvol"}, depth : {"both"}]
               \cup [price : {"ok"}, ticker : {"non200", "ok"},
                     depth : {"exc", "non200", "bids", "asks", "both"}]
               \cup [price : {"noprice"}, ticker : {"ok"}, depth : {"both"}]
          ELSE {})

BinanceNets(syms) ==
    {n \in [1..Len(syms) -> UNION {BinanceOutcomes(s) : s \in Range(syms)}] :
        \A i \in 1..Len(syms) : n[i] \in BinanceOutcomes(syms[i])}

\* lines 81-98: the optional data; [bid, ask, volume, depth_requested]
BinanceExtrasFallback(depthRequested) ==
    [bid |-> 0, ask |-> 0, volume |-> 0, depth_requested |-> depthRequested]

BinanceExtras(sym, o) ==
    IF o.ticker = "exc"
    THEN BinanceExtrasFallback(FALSE)                 \* line 84 raised
    ELSE IF o.depth = "exc"
    THEN BinanceExtrasFallback(TRUE)                  \* line 89 raised
    ELSE IF o.ticker = "badvol"
    THEN BinanceExtrasFallback(TRUE)                  \* line 94 raised
    ELSE [bid |-> IF o.depth \in {"bids", "both"} THEN QuoteBid(sym) ELSE 0,
          ask |-> IF o.depth \in {"asks", "both"} THEN QuoteAsk(sym) ELSE 0,
          volume |-> IF o.ticker = "ok" THEN QuoteVolume(sym) ELSE 0,
          depth_requested |-> TRUE]

\* line 108
BinanceSpreadAlways(bid, ask) == ask - bid
BinanceSpread(bid, ask) == IF ask > 0 /\ bid > 0 THEN ask - bid ELSE 0

\* lines 100-110
BinanceRecord(sym, x) ==
    Record(sym, "binance", QuotePrice(sym), x.volume, x.bid, x.ask,
           BinanceSpread(x.bid, x.ask), 0)

BinancePriceReq(sym, i) == Request("binance", "ticker/price", sym \o "USDT", i)
BinanceTickerReq(sym, i) == Request("binance", "ticker/24hr", sym \o "USDT", i)
BinanceDepthReq(sym, i) == Request("binance", "depth", sym \o "USDT", i)

\* lines 80-113 once the price request was answered with a JSON body
BinanceAfterPrice(sym, i, o, acc) ==
    LET x == BinanceExtras(sym, o)
        a1 == AddReq(acc, BinanceTickerReq(sym, i))
        a2 == IF x.depth_requested THEN AddReq(a1, BinanceDepthReq(sym, i)) ELSE a1
    IN  IF o.price = "noprice"
        THEN Handled(a2, "KeyError", Log("error", "binance", sym))   \* line 104 raises
        ELSE AddLog(AddRec(a2, BinanceRecord(sym, x)), Log("info", "binance", sym))

\* the class of the exception a failed price request ends in
BinancePriceError(kind) == CASE kind = "exc" -> "ConnectionError"     \* line 66
                             [] kind = "err" -> "HTTPError"           \* line 77
                             [] kind = "notjson" -> "ValueError"      \* line 78

\* lines 63-123: one iteration of the loop
BinanceOne(sym, i, o, acc) ==
    LET a0 == AddReq(acc, BinancePriceReq(sym, i))
    IN  CASE o.price = "451" ->
               Break(AddLog(a0, Log("warning", "binance", sym)))         \* lines 73-75
          [] o.price \in {"exc", "err", "notjson"} ->
               IF Catches("HTTPError", BinancePriceError(o.price))
               THEN AddLog(a0, Log("error", "binance", sym))   \* line 121 (the status is not 451)
               ELSE Handled(a0, BinancePriceError(o.price), Log("error", "binance", sym))
          [] OTHER -> BinanceAfterPrice(sym, i, o, a0)

RECURSIVE BinanceLoop(_, _, _, _)
\* lines 62-125: the loop from position i on
BinanceLoop(syms, nt, i, acc) ==
    IF i > Len(syms) \/ acc.stop THEN acc
    ELSE BinanceLoop(syms, nt, i + 1, BinanceOne(syms[i], i, nt[i], acc))

fetch_binance_data(syms, nt) == BinanceLoop(syms, nt, 1, Acc0)

-----------------------------------------------------------------------------
(* fetch_coinbase_data *)

\* The answer to the one ticker request made for a symbol:
\*   "exc" requests.get raised, "err" an error status, "bad" status 200 with
\*   a body that is no JSON or lacks price/volume/bid/ask, "ok".
CoinbaseOutcomes(sym) ==
    {"exc", "err"} \cup (IF sym \in Listed THEN {"bad", "ok"} ELSE {})

CoinbaseNets(syms) ==
    {n \in [1..Len(syms) -> {"exc", "err", "bad", "ok"}] :
        \A i \in 1..Len(syms) : n[i] \in CoinbaseOutcomes(syms[i])}

\* line 154
CoinbaseSpread(bid, ask) == ask - bid

\* lines 146-156
CoinbaseRecord(sym) ==
    Record(sym, "coinbase", QuotePrice(sym), QuoteVolume(sym), QuoteBid(sym),
           QuoteAsk(sym), CoinbaseSpread(QuoteBid(sym), QuoteAsk(sym)), 0)

CoinbaseReq(sym, i) ==
    Request("coinbase", "products/" \o sym \o "-USD/ticker", "", i)

CoinbaseError(kind) == CASE kind = "exc" -> "ConnectionError"         \* line 141
                         [] kind = "err" -> "HTTPError"               \* line 142
                         [] kind = "bad" -> "KeyError"                \* lines 144-154

\* as CoinbaseOne, with a failed request issued a second time
CoinbaseOneRetry(sym, i, o, acc) ==
    LET a0 == AddReq(acc, CoinbaseReq(sym, i))
    IN  IF o = "ok"
        THEN AddLog(AddRec(a0, CoinbaseRecord(sym)), Log("info", "coinbase", sym))
        ELSE Handled(AddReq(a0, CoinbaseReq(sym, i)), CoinbaseError(o),
                     Log("error", "coinbase", sym))

\* lines 138-162: one iteration of the loop
CoinbaseOne(sym, i, o, acc) ==
    LET a0 == AddReq(acc, CoinbaseReq(sym, i))
    IN  IF o = "ok"
        THEN AddLog(AddRec(a0, CoinbaseRecord(sym)), Log("info", "coinbase", sym))
        ELSE Handled(a0, CoinbaseError(o), Log("error", "coinbase", sym))

RECURSIVE CoinbaseLoop(_, _, _, _)
\* lines 137-164: the loop from position i on
CoinbaseLoop(syms, nt, i, acc) ==
    IF i > Len(syms) \/ acc.stop THEN acc
    ELSE CoinbaseLoop(syms, nt, i + 1, CoinbaseOne(syms[i], i, nt[i], acc))

fetch_coinbase_data(syms, nt) == CoinbaseLoop(syms, nt, 1, Acc0)

-----------------------------------------------------------------------------
(* fetch_kraken_data *)

\* lines 243-248: symbol_map
KrakenPair(sym) == CASE sym = "BTC" -> "XXBTZUSD"
                     [] sym = "ETH" -> "XETHZUSD"
                     [] sym = "ADA" -> "ADAUSD"
                     [] sym = "SOL" -> "SOLUSD"
                     [] OTHER -> ""

\* line 255: symbol in symbol_map
KrakenMapsAll(sym) == TRUE
KrakenMaps(sym) == sym \in {"BTC", "ETH", "ADA", "SOL"}

\* The answer to the one Ticker request made for a mapped symbol:
\*   "exc", "err", "bad" (no JSON object), "apierror" (a non-empty 'error'),
\*   "noresult" (no 'result' entry for the pair), "badticker" (an entry
\*   lacking c/v/b/a), "ok".  "-" for a symbol that is not requested.
KrakenOutcomes(sym) ==
    IF KrakenMaps(sym)
    THEN {"exc", "err", "bad", "apierror", "noresult", "badticker", "ok"}
    ELSE {"-"}

KrakenNets(syms) ==
    {n \in [1..Len(syms) -> {"exc", "err", "bad", "apierror", "noresult",
                             "badticker", "ok", "-"}] :
        \A i \in 1..Len(syms) : n[i] \in KrakenOutcomes(syms[i])}

\* line 283
KrakenSpread(bid, ask) == ask - bid

\* lines 275-285
KrakenRecord(sym) ==
    Record(sym, "kraken", QuotePrice(sym), QuoteVolume(sym), QuoteBid(sym),
           QuoteAsk(sym), KrakenSpread(QuoteBid(sym), QuoteAsk(sym)), 0)

KrakenReq(sym, i) == Request("kraken", "0/public/Ticker", KrakenPair(sym), i)

KrakenError(kind) == CASE kind = "exc" -> "ConnectionError"           \* line 263
                       [] kind = "err" -> "HTTPError"                 \* line 264
                       [] kind = "bad" -> "ValueError"                \* line 266
                       [] kind = "badticker" -> "KeyError"            \* lines 279-283

\* lines 258-291: one mapped symbol
KrakenOne(sym, i, o, acc) ==
    LET a0 == AddReq(acc, KrakenReq(sym, i))
    IN  CASE o = "ok" ->
               AddLog(AddRec(a0, KrakenRecord(sym)), Log("info", "kraken", sym))
          [] o = "apierror" -> AddLog(a0, Log("error", "kraken", sym))   \* lines 268-270
          [] o = "noresult" -> a0                                        \* line 272 is false
          [] OTHER -> Handled(a0, KrakenError(o), Log("error", "kraken", sym))

RECURSIVE KrakenLoop(_, _, _, _)
\* lines 254-293: the loop from position i on
KrakenLoop(syms, nt, i, acc) ==
    IF i > Len(syms) \/ acc.stop THEN acc
    ELSE IF ~KrakenMaps(syms[i])
         THEN KrakenLoop(syms, nt, i + 1, acc)          \* continue, line 256
         ELSE KrakenLoop(syms, nt, i + 1, KrakenOne(syms[i], i, nt[i], acc))

fetch_kraken_data(syms, nt) == KrakenLoop(syms, nt, 1, Acc0)

-----------------------------------------------------------------------------
(* fetch_coingecko_data *)

\* lines 173-178: symbol_map
CoinGeckoId(sym) == CASE sym = "BTC" -> "bitcoin"
                      [] sym = "ETH" -> "ethereum"
                      [] sym = "ADA" -> "cardano"
                      [] sym = "SOL" -> "solana"
                      [] OTHER -> ""

CoinGeckoMaps(sym) == sym \in {"BTC", "ETH", "ADA", "SOL"}

RECURSIVE CoinIds(_)
\* line 186: the ids of the mapped symbols, in input order
CoinIds(syms) ==
    IF syms = <<>> THEN <<>>
    ELSE IF CoinGeckoMaps(Head(syms))
         THEN <<CoinGeckoId(Head(syms))>> \o CoinIds(Tail(syms))
         ELSE CoinIds(Tail(syms))

\* The answer to the single request of a call:
\*   kind : "exc", "err", "bad" (no JSON), "ok", or "-" when no request is made
\*   coins: for kind "ok", what the body holds for each requested id:
\*          "absent", "nousd" (an entry without 'usd'), "ok"
CoinGeckoNets(syms) ==
    IF CoinIds(syms) = <<>>
    THEN {[kind |-> "-", coins |-> <<>>]}
    ELSE [kind : {"exc", "err", "bad"}, coins : {<<>>}]
         \cup [kind : {"ok"},
               coins : [Range(CoinIds(syms)) -> {"absent", "nousd", "ok"}]]

\* line 214: spread = price * 0.001
PerMille == 1000
CoinGeckoSpread(price) == price \div PerMille

\* lines 213-226
CoinGeckoRecord(sym) ==
    LET price == QuotePrice(sym)
        spread == CoinGeckoSpread(price)
    IN  Record(sym, "coingecko", price, QuoteVolume(sym), price - spread \div 2,
               price + spread \div 2, spread, QuoteMarketCap(sym))

RECURSIVE CoinGeckoLoop(_, _, _, _)
\* lines 207-229: the loop over the symbols, inside the function's one try
CoinGeckoLoop(syms, coins, i, acc) ==
    IF i > Len(syms) \/ acc.stop THEN acc
    ELSE LET sym == syms[i]
             id == CoinGeckoId(sym)
         IN  IF ~CoinGeckoMaps(sym) \/ coins[id] = "absent"
             THEN CoinGeckoLoop(syms, coins, i + 1, acc)          \* line 209 is false
             ELSE IF coins[id] = "nousd"                          \* line 213 raises
             THEN Break(Handled(acc, "KeyError", Log("error", "coingecko", "")))
             ELSE CoinGeckoLoop(syms, coins, i + 1,
                      AddLog(AddRec(acc, CoinGeckoRecord(sym)), Log("info", "coingecko", sym)))

CoinGeckoReq(syms) ==
    Request("coingecko", "api/v3/simple/price", Join(CoinIds(syms), ","), 0)

CoinGeckoError(kind) == CASE kind = "exc" -> "ConnectionError"        \* line 202
                          [] kind = "err" -> "HTTPError"              \* line 203
                          [] kind = "bad" -> "ValueError"             \* line 205

\* lines 184-234
fetch_coingecko_data(syms, nt) ==
    IF CoinIds(syms) = <<>>
    THEN AddLog(Acc0, Log("warning", "coingecko", ""))            \* lines 188-190
    ELSE LET a0 == AddReq(Acc0, CoinGeckoReq(syms))
         IN  IF nt.kind = "ok"
             THEN CoinGeckoLoop(syms, nt.coins, 1, a0)
             ELSE Handled(a0, CoinGeckoError(nt.kind), Log("error", "coingecko", ""))

-----------------------------------------------------------------------------
(* create_crypto_table and ingest_crypto_data *)

\* The answer to a request on the QuestDB /exec endpoint:
\*   "exc" the session's get raised, "err" an error status, "ok".
ExecOutcomes == {"exc", "err", "ok"}

\* lines 25-37
CreateTableSql ==
    "CREATE TABLE IF NOT EXISTS crypto_prices (timestamp TIMESTAMP, "
    \o "symbol SYMBOL CAPACITY 256 CACHE, exchange SYMBOL CAPACITY 64 CACHE, "
    \o "price DOUBLE, volume DOUBLE, bid DOUBLE, ask DOUBLE, spread DOUBLE, "
    \o "market_cap DOUBLE) TIMESTAMP(timestamp) PARTITION BY DAY WAL"

ExecReq(sql) == Request("questdb", "exec", sql, 0)

ExecError(resp) == CASE resp = "exc" -> "ConnectionError"
                     [] resp = "err" -> "HTTPError"

\* lines 39-49; [ret, requests, logs, raised]
create_crypto_table(resp) ==
    LET reqs == <<ExecReq(CreateTableSql)>>
    IN  IF resp = "ok"
        THEN [ret |-> TRUE, requests |-> reqs, raised |-> FALSE,
              logs |-> <<Log("info", "questdb", "create")>>]
        ELSE IF Catches("Exception", ExecError(resp))
        THEN [ret |-> FALSE, requests |-> reqs, raised |-> FALSE,
              logs |-> <<Log("error", "questdb", "create")>>]
        ELSE [ret |-> FALSE, requests |-> reqs, raised |-> TRUE, logs |-> <<>>]

Digit(d) == CASE d = 0 -> "0" [] d = 1 -> "1" [] d = 2 -> "2" [] d = 3 -> "3"
              [] d = 4 -> "4" [] d = 5 -> "5" [] d = 6 -> "6" [] d = 7 -> "7"
              [] d = 8 -> "8" [] d = 9 -> "9"

RECURSIVE NatStr(_)
NatStr(n) == IF n < 10 THEN Digit(n) ELSE NatStr(n \div 10) \o Digit(n % 10)

\* the text an f-string gives a number
NumStr(n) == IF n < 0 THEN "-" \o NatStr(0 - n) ELSE NatStr(n)

\* as ValuesTuple, with bid and ask exchanged
ValuesTupleAskFirst(r) ==
    "(" \o "'" \o r.timestamp \o "'," \o "'" \o r.symbol \o "'," \o "'" \o r.exchange \o "',"
    \o NumStr(r.price) \o "," \o NumStr(r.volume) \o "," \o NumStr(r.ask) \o ","
    \o NumStr(r.bid) \o "," \o NumStr(r.spread) \o "," \o NumStr(r.market_cap) \o ")"

\* lines 306-317: one record's tuple
ValuesTuple(r) ==
    "(" \o "'" \o r.timestamp \o "'," \o "'" \o r.symbol \o "'," \o "'" \o r.exchange \o "',"
    \o NumStr(r.price) \o "," \o NumStr(r.volume) \o "," \o NumStr(r.bid) \o ","
    \o NumStr(r.ask) \o "," \o NumStr(r.spread) \o "," \o NumStr(r.market_cap) \o ")"

\* lines 304-323; the indentation of the text is left out
InsertSql(data) ==
    "\nINSERT INTO crypto_prices"
    \o "\n(timestamp, symbol, exchange, price, volume, bid, ask, spread, market_cap)"
    \o "\nVALUES " \o Join([i \in 1..Len(data) |-> ValuesTuple(data[i])], ",") \o "\n"

\* line 299: not crypto_data
NoDataNever(data) == FALSE
NoData(data) == data = <<>>

\* lines 295-336; [ret, requests, logs, raised, crypto_data], crypto_data
\* being the caller's list as the call leaves it: the code only reads it
ingest_crypto_data(data, resp) ==
    IF NoData(data)
    THEN [ret |-> FALSE, requests |-> <<>>, raised |-> FALSE, crypto_data |-> data,
          logs |-> <<Log("warning", "questdb", "ingest")>>]
    ELSE LET reqs == <<ExecReq(InsertSql(data))>>
         IN  IF resp = "ok"
             THEN [ret |-> TRUE, requests |-> reqs, raised |-> FALSE,
                   crypto_data |-> data,
                   logs |-> <<Log("info", "questdb", "ingest")>>]
             ELSE IF Catches("Exception", ExecError(resp))
             THEN [ret |-> FALSE, requests |-> reqs, raised |-> FALSE,
                   crypto_data |-> data,
                   logs |-> <<Log("error", "questdb", "ingest"),
                              Log("error", "questdb", "query")>>]
             ELSE [ret |-> FALSE, requests |-> reqs, raised |-> TRUE,
                   crypto_data |-> data, logs |-> <<>>]

-----------------------------------------------------------------------------
(* Calls on a QuestDBCryptoIngestion object: a caller holding a symbol     *)
(* list calls create_crypto_table or one fetcher, and may hand what the    *)
(* fetcher returned to ingest_crypto_data.                                 *)

NoPipeline ==
    /\ ppc = "off" /\ calls = <<>> /\ table_created = FALSE /\ all_crypto_data = <<>> /\ insert_arg = <<>>
    /\ fetched = [binance |-> <<>>, coinbase |-> <<>>, coingecko |-> <<>>, kraken |-> <<>>]
    /\ db_requests = <<>> /\ praised = FALSE

NoCall ==
    /\ pc = "idle" /\ op = "none" /\ crypto_data = <<>> /\ net = <<>> /\ ret = <<>>
    /\ raised = FALSE /\ requests = <<>> /\ logs = <<>>

NoAsk ==
    /\ apc = "off" /\ question = "" /\ analysis = <<>> /\ sql_query = ""
    /\ qresponse = <<>> /\ results = <<>> /\ response = "" /\ araised = FALSE
    /\ arequests = <<>> /\ crypto_prices = {}

InitFetch ==
    /\ NoCall
    /\ symbols \in SymbolLists
    /\ NoPipeline
    /\ NoAsk

\* a fetcher returned (or raised): r is its final accumulator
Fetched(name, nt, r) ==
    /\ pc' = "fetched"
    /\ op' = name
    /\ net' = nt
    /\ ret' = r.data
    /\ raised' = r.raised
    /\ requests' = r.requests
    /\ logs' = r.logs
    /\ UNCHANGED <<symbols, crypto_data, pipeVars, askVars, crypto_prices>>

FetchBinance ==
    /\ pc = "idle"
    /\ \E nt \in BinanceNets(symbols) :
          Fetched("fetch_binance_data", nt, fetch_binance_data(symbols, nt))

FetchCoinbase ==
    /\ pc = "idle"
    /\ \E nt \in CoinbaseNets(symbols) :
          Fetched("fetch_coinbase_data", nt, fetch_coinbase_data(symbols, nt))

FetchCoinGecko ==
    /\ pc = "idle"
    /\ \E nt \in CoinGeckoNets(symbols) :
          Fetched("fetch_coingecko_data", nt, fetch_coingecko_data(symbols, nt))

FetchKraken ==
    /\ pc = "idle"
    /\ \E nt \in KrakenNets(symbols) :
          Fetched("fetch_kraken_data", nt, fetch_kraken_data(symbols, nt))

CreateCryptoTable ==
    /\ pc = "idle"
    /\ \E resp \in ExecOutcomes :
          LET r == create_crypto_table(resp)
          IN  /\ pc' = "created"
              /\ op' = "create_crypto_table"
              /\ net' = resp
              /\ ret' = r.ret
              /\ raised' = r.raised
              /\ requests' = r.requests
              /\ logs' = r.logs
              /\ UNCHANGED <<symbols, crypto_data, pipeVars, askVars, crypto_prices>>

\* ingest_crypto_data(ret) with the list a fetcher returned
IngestCryptoData ==
    /\ pc = "fetched" /\ ~raised
    /\ \E resp \in ExecOutcomes :
          LET r == ingest_crypto_data(ret, resp)
          IN  /\ pc' = "ingested"
              /\ op' = "ingest_crypto_data"
              /\ crypto_data' = r.crypto_data
              /\ net' = resp
              /\ ret' = r.ret
              /\ raised' = r.raised
              /\ requests' = r.requests
              /\ logs' = r.logs
              /\ UNCHANGED <<symbols, pipeVars, askVars, crypto_prices>>

NextFetch ==
    \/ CreateCryptoTable
    \/ FetchBinance
    \/ FetchCoinbase
    \/ FetchCoinGecko
    \/ FetchKraken
    \/ IngestCryptoData

SpecFetch == InitFetch /\ [][NextFetch]_vars

-----------------------------------------------------------------------------
(* demonstrate_crypto_pipeline *)

\* line 356
PipelineSymbols == <<"BTC", "ETH", "ADA", "SOL">>

\* The network during one run of the pipeline: a source answers every
\* symbol alike, or answers all but one position well.
UniformNets(S) == {[i \in 1..Len(PipelineSymbols) |-> o] : o \in S}
OneFaultNets(good, F) ==
    {[i \in 1..Len(PipelineSymbols) |-> IF i = k THEN f ELSE good] :
        k \in 1..Len(PipelineSymbols), f \in F}

BinanceGood == [price |-> "ok", ticker |-> "ok", depth |-> "both"]
PipelineBinanceNets ==
    UniformNets(BinanceOutcomes("BTC"))
    \cup OneFaultNets(BinanceGood, [price : {"exc", "451"}, ticker : {"-"}, depth : {"-"}])

PipelineCoinbaseNets ==
    UniformNets(CoinbaseOutcomes("BTC")) \cup OneFaultNets("ok", {"exc"})

PipelineCoinGeckoNets ==
    [kind : {"exc", "err", "bad"}, coins : {<<>>}]
    \cup [kind : {"ok"},
          coins : {[id \in Range(CoinIds(PipelineSymbols)) |-> IF id = bad THEN f ELSE "ok"] :
                      bad \in Range(CoinIds(PipelineSymbols)) \cup {"none"},
                      f \in {"absent", "nousd"}}]

PipelineKrakenNets ==
    UniformNets(KrakenOutcomes("BTC")) \cup OneFaultNets("ok", {"exc", "noresult"})

InitPipeline ==
    /\ NoCall
    /\ symbols = <<>>
    /\ ppc = "create_table"
    /\ calls = <<>>
    /\ table_created = FALSE
    /\ fetched = [binance |-> <<>>, coinbase |-> <<>>, coingecko |-> <<>>, kraken |-> <<>>]
    /\ all_crypto_data = <<>>
    /\ insert_arg = <<>>
    /\ db_requests = <<>>
    /\ praised = FALSE
    /\ NoAsk

\* list.extend
ExtendReplaces(list, more) == more
Extend(list, more) == list \o more

\* lines 350-352
PipeCreateTable ==
    /\ ppc = "create_table"
    /\ \E resp \in ExecOutcomes :
          LET r == create_crypto_table(resp)
          IN  /\ calls' = Append(calls, "create_crypto_table")
              /\ db_requests' = db_requests \o r.requests
              /\ praised' = r.raised
              /\ table_created' = (~r.raised /\ r.ret)
              /\ ppc' = IF r.raised \/ ~r.ret THEN "done" ELSE "binance"
    /\ UNCHANGED <<fetched, all_crypto_data, insert_arg, fetchVars, askVars, crypto_prices>>

\* one "x_data = ingestion.fetch_x_data(symbols); all_crypto_data.extend(x_data)"
PipeFetched(source, name, r, next) ==
    /\ calls' = Append(calls, name)
    /\ praised' = r.raised
    /\ IF r.raised
       THEN /\ ppc' = "done"
            /\ UNCHANGED <<fetched, all_crypto_data>>
       ELSE /\ ppc' = next
            /\ fetched' = [fetched EXCEPT ![source] = r.data]
            /\ all_crypto_data' = Extend(all_crypto_data, r.data)
    /\ UNCHANGED <<table_created, insert_arg, db_requests, fetchVars, askVars, crypto_prices>>

\* lines 362-363
PipeBinance ==
    /\ ppc = "binance"
    /\ \E nt \in PipelineBinanceNets :
          PipeFetched("binance", "fetch_binance_data",
                      fetch_binance_data(PipelineSymbols, nt), "coinbase")

\* lines 366-367
PipeCoinbase ==
    /\ ppc = "coinbase"
    /\ \E nt \in PipelineCoinbaseNets :
          PipeFetched("coinbase", "fetch_coinbase_data",
                      fetch_coinbase_data(PipelineSymbols, nt), "coingecko")

\* lines 370-371
PipeCoinGecko ==
    /\ ppc = "coingecko"
    /\ \E nt \in PipelineCoinGeckoNets :
          PipeFetched("coingecko", "fetch_coingecko_data",
                      fetch_coingecko_data(PipelineSymbols, nt), "kraken")

\* lines 374-375
PipeKraken ==
    /\ ppc = "kraken"
    /\ \E nt \in PipelineKrakenNets :
          PipeFetched("kraken", "fetch_kraken_data",
                      fetch_kraken_data(PipelineSymbols, nt), "ingest")

\* lines 386-399
PipeIngest ==
    /\ ppc = "ingest"
    /\ IF all_crypto_data # <<>>
       THEN \E resp \in ExecOutcomes :
               LET r == ingest_crypto_data(all_crypto_data, resp)
               IN  /\ calls' = Append(calls, "ingest_crypto_data")
                   /\ insert_arg' = Append(insert_arg, all_crypto_data)
                   /\ db_requests' = db_requests \o r.requests
                   /\ praised' = r.raised
                   /\ all_crypto_data' = r.crypto_data
       ELSE UNCHANGED <<calls, insert_arg, db_requests, praised, all_crypto_data>>
    /\ ppc' = "done"
    /\ UNCHANGED <<table_created, fetched, fetchVars, askVars, crypto_prices>>

NextPipeline ==
    \/ PipeCreateTable
    \/ PipeBinance
    \/ PipeCoinbase
    \/ PipeCoinGecko
    \/ PipeKraken
    \/ PipeIngest

SpecPipeline == InitPipeline /\ [][NextPipeline]_vars

-----------------------------------------------------------------------------
(* Properties of the ingestion component *)

Fetchers == {"fetch_binance_data", "fetch_coinbase_data",
             "fetch_coingecko_data", "fetch_kraken_data"}

AfterFetch(name) == pc = "fetched" /\ op = name

RECURSIVE IsSubseq(_, _)
\* a is b with some entries left out
IsSubseq(a, b) ==
    IF a = <<>> THEN TRUE
    ELSE IF b = <<>> THEN FALSE
    ELSE IF Head(a) = Head(b) THEN IsSubseq(Tail(a), Tail(b))
    ELSE IsSubseq(a, Tail(b))

SymbolsOf(records) == [i \in 1..Len(records) |-> records[i].symbol]

\* C1: ingest_crypto_data called with an empty list returns False and
\* issues no HTTP request.
C1_EmptyIngestFailsWithoutRequest ==
    (pc = "ingested" /\ crypto_data = <<>>) => (ret = FALSE /\ requests = <<>> /\ ~raised)

C1_Witness ==
    pc = "ingested" /\ crypto_data = <<>> /\ ret = FALSE /\ requests = <<>>

\* C6: in demonstrate_crypto_pipeline, once the table was created, the four
\* fetchers are invoked in the order Binance, Coinbase, CoinGecko, Kraken
\* whatever fails in them, none raises into the pipeline, and every record a
\* source returned is in the list handed to the bulk insert.
PipelineOrder == <<"create_crypto_table", "fetch_binance_data", "fetch_coinbase_data",
                   "fetch_coingecko_data", "fetch_kraken_data", "ingest_crypto_data">>

Sources == {"binance", "coinbase", "coingecko", "kraken"}

C6_AllSourcesTried ==
    table_created =>
        /\ ~praised
        /\ Len(calls) <= Len(PipelineOrder)
        /\ calls = SubSeq(PipelineOrder, 1, Len(calls))
        /\ (ppc = "done" =>
              /\ Len(calls) >= 5
              /\ \A src \in Sources : \A i \in 1..Len(fetched[src]) :
                    /\ Len(insert_arg) = 1
                    /\ fetched[src][i] \in Range(insert_arg[1]))

C6_Witness ==
    /\ ppc = "done" /\ table_created
    /\ fetched.binance = <<>> /\ fetched.coinbase = <<>>
    /\ Len(fetched.coingecko) = 1 /\ Len(fetched.kraken) = 3
    /\ Len(insert_arg) = 1 /\ Len(insert_arg[1]) = 4

IsListed(sym) == sym \in Listed

NoRecordFor(sym) == \A k \in 1..Len(ret) : ret[k].symbol # sym
NoRequestAt(i) == \A k \in 1..Len(requests) : requests[k].pos # i
NoErrorLogAbout(sym) ==
    \A k \in 1..Len(logs) : ~(logs[k].level = "error" /\ logs[k].about = sym)

\* the ids CoinGecko is asked for when only supported symbols are sent
ListedIds == LET l == SelectSeq(symbols, IsListed)
             IN  Join([k \in 1..Len(l) |-> CoinGeckoId(l[k])], ",")

\* C9 as stated: the records of every fetcher are those of input symbols, at
\* most one per occurrence and in input order, and a symbol the source does
\* not support yields no record, no request and no error log.
C9_UnsupportedSkippedSilently ==
    \A name \in Fetchers : AfterFetch(name) =>
        /\ IsSubseq(SymbolsOf(ret), symbols)
        /\ \A i \in 1..Len(symbols) : ~IsListed(symbols[i]) =>
              /\ NoRecordFor(symbols[i])
              /\ NoRequestAt(i)
              /\ NoErrorLogAbout(symbols[i])
              /\ (name = "fetch_coingecko_data" =>
                     \A k \in 1..Len(requests) : requests[k].param = ListedIds)

\* position i of a Binance call is reached: no earlier symbol was answered 451
BinanceReached(i) == \A j \in 1..(i - 1) : net[j].price # "451"

\* C9 as amended: the records of every fetcher are those of input symbols,
\* at most one per occurrence and in input order, and an unsupported symbol
\* never yields a record.  Kraken and CoinGecko, which map symbols, skip it
\* silently: no request is made for it and no error is logged.  Binance and
\* Coinbase have no map: they request every symbol they reach, and the
\* unsupported one is logged (an error, or Binance's 451 warning).
C9_SkipPerSource ==
    \A name \in Fetchers : AfterFetch(name) =>
        /\ IsSubseq(SymbolsOf(ret), symbols)
        /\ \A i \in 1..Len(symbols) : ~IsListed(symbols[i]) =>
              /\ NoRecordFor(symbols[i])
              /\ CASE name = "fetch_kraken_data" ->
                        NoRequestAt(i) /\ NoErrorLogAbout(symbols[i])
                   [] name = "fetch_coingecko_data" ->
                        /\ NoErrorLogAbout(symbols[i])
                        /\ \A k \in 1..Len(requests) : requests[k].param = ListedIds
                        /\ (ListedIds = "" => requests = <<>>)
                   [] name = "fetch_coinbase_data" ->
                        ~NoRequestAt(i) /\ ~NoErrorLogAbout(symbols[i])
                   [] name = "fetch_binance_data" ->
                        BinanceReached(i) =>
                           /\ ~NoRequestAt(i)
                           /\ \E k \in 1..Len(logs) :
                                 /\ logs[k].about = symbols[i]
                                 /\ logs[k].level \in {"error", "warning"}

C9_Witness ==
    /\ AfterFetch("fetch_kraken_data")
    /\ symbols = <<"XYZ", "BTC">>
    /\ Len(ret) = 1 /\ Len(requests) = 1 /\ Len(logs) = 1

NoRequestTwice ==
    \A j, k \in 1..Len(requests) : j # k => requests[j] # requests[k]

\* every request made for position i succeeded with a usable body
AllSucceeded(name, i) ==
    CASE name = "fetch_binance_data" ->
           /\ net[i].price = "ok" /\ net[i].ticker = "ok"
           /\ net[i].depth \in {"bids", "asks", "both"}
      [] name = "fetch_coingecko_data" ->
           /\ net.kind = "ok" /\ IsListed(symbols[i])
           /\ net.coins[CoinGeckoId(symbols[i])] = "ok"
      [] OTHER -> net[i] = "ok"

\* C10 as stated: no request is issued twice, and the number of returned
\* records equals the number of symbols whose requests all succeeded.
C10_RecordsAreSucceededSymbols ==
    \A name \in Fetchers : AfterFetch(name) =>
        /\ NoRequestTwice
        /\ Len(ret) = Cardinality({i \in 1..Len(symbols) : AllSucceeded(name, i)})

\* C10 as amended: no fetcher retries (no request is issued twice in a
\* call), and a failure only makes the returned list smaller.  Coinbase and
\* Kraken return one record per symbol whose request succeeded with a usable
\* body.  Binance returns one record per symbol reached before the first 451
\* whose price request succeeded, also when its 24hr or depth request failed
\* (volume, bid and ask are then 0).  CoinGecko makes one request for all
\* symbols; when it fails no record is returned at all.
C10_NoRetrySmallerList ==
    \A name \in Fetchers : AfterFetch(name) =>
        /\ NoRequestTwice
        /\ Len(ret) <= Len(symbols)
        /\ CASE name = "fetch_binance_data" ->
                  /\ Len(ret) = Cardinality({i \in 1..Len(symbols) :
                                    net[i].price = "ok" /\ BinanceReached(i)})
                  /\ Len(requests) <= 3 * Len(symbols)
             [] name = "fetch_coingecko_data" ->
                  /\ Len(requests) <= 1
                  /\ net.kind # "ok" => ret = <<>>
                  /\ Len(ret) <= Cardinality({i \in 1..Len(symbols) :
                                     AllSucceeded(name, i)})
             [] OTHER ->
                  /\ Len(ret) = Cardinality({i \in 1..Len(symbols) : net[i] = "ok"})
                  /\ Len(requests) <= Len(symbols)

C10_Witness ==
    /\ AfterFetch("fetch_binance_data")
    /\ Len(symbols) = 2 /\ Len(ret) = 1
    /\ net[1].price = "exc"
    /\ net[2].price = "ok" /\ net[2].ticker = "non200" /\ net[2].depth = "exc"
    /\ ret[1].volume = 0 /\ ret[1].bid = 0
    /\ Len(requests) = 4

-----------------------------------------------------------------------------
(* ClaudeCryptoAnalyst._analyze_user_intent *)

LowerChar(c) ==
    CASE c = "A" -> "a" [] c = "B" -> "b" [] c = "C" -> "c" [] c = "D" -> "d"
      [] c = "E" -> "e" [] c = "F" -> "f" [] c = "G" -> "g" [] c = "H" -> "h"
      [] c = "I" -> "i" [] c = "J" -> "j" [] c = "K" -> "k" [] c = "L" -> "l"
      [] c = "M" -> "m" [] c = "N" -> "n" [] c = "O" -> "o" [] c = "P" -> "p"
      [] c = "Q" -> "q" [] c = "R" -> "r" [] c = "S" -> "s" [] c = "T" -> "t"
      [] c = "U" -> "u" [] c = "V" -> "v" [] c = "W" -> "w" [] c = "X" -> "x"
      [] c = "Y" -> "y" [] c = "Z" -> "z" [] OTHER -> c

RECURSIVE Lower(_)
\* str.lower, line 46
Lower(s) == IF s = "" THEN ""
            ELSE LowerChar(SubSeq(s, 1, 1)) \o Lower(SubSeq(s, 2, Len(s)))

\* lines 57-65: the keyword lists
PriceWords == {"price", "cost", "value"}
VolumeWords == {"volume", "trading", "activity"}
ArbitrageWords == {"arbitrage", "difference", "spread", "opportunity"}
TrendWords == {"trend", "change", "movement", "performance"}
ComparisonWords == {"compare", "vs", "versus", "between"}

\* the two entries of analysis the classification sets
Class(intent, comparison) == [intent |-> intent, comparison |-> comparison]

\* as Classify, with the volume keywords tried before the price keywords
ClassifyVolumeFirst(ql) ==
    IF AnyIn(ql, VolumeWords) THEN Class("volume_analysis", FALSE)
    ELSE IF AnyIn(ql, PriceWords) THEN Class("price_analysis", FALSE)
    ELSE IF AnyIn(ql, ArbitrageWords) THEN Class("arbitrage_analysis", FALSE)
    ELSE IF AnyIn(ql, TrendWords) THEN Class("trend_analysis", FALSE)
    ELSE IF AnyIn(ql, ComparisonWords) THEN Class("comparison", TRUE)
    ELSE Class("unknown", FALSE)

\* as Classify, with the price intent where no keyword matches
ClassifyPriceDefault(ql) ==
    IF AnyIn(ql, PriceWords) THEN Class("price_analysis", FALSE)
    ELSE IF AnyIn(ql, VolumeWords) THEN Class("volume_analysis", FALSE)
    ELSE IF AnyIn(ql, ArbitrageWords) THEN Class("arbitrage_analysis", FALSE)
    ELSE IF AnyIn(ql, TrendWords) THEN Class("trend_analysis", FALSE)
    ELSE IF AnyIn(ql, ComparisonWords) THEN Class("comparison", TRUE)
    ELSE Class("price_analysis", FALSE)

\* as Classify, with the comparison flag set by the comparison keywords
\* whatever the intent
ClassifyFlagByKeyword(ql) ==
    LET flag == AnyIn(ql, ComparisonWords)
    IN  IF AnyIn(ql, PriceWords) THEN Class("price_analysis", flag)
        ELSE IF AnyIn(ql, VolumeWords) THEN Class("volume_analysis", flag)
        ELSE IF AnyIn(ql, ArbitrageWords) THEN Class("arbitrage_analysis", flag)
        ELSE IF AnyIn(ql, TrendWords) THEN Class("trend_analysis", flag)
        ELSE IF flag THEN Class("comparison", TRUE)
        ELSE Class("unknown", FALSE)

\* lines 49, 53, 56-67: analysis["intent"] and analysis["comparison"]
Classify(ql) ==
    IF AnyIn(ql, PriceWords) THEN Class("price_analysis", FALSE)
    ELSE IF AnyIn(ql, VolumeWords) THEN Class("volume_analysis", FALSE)
    ELSE IF AnyIn(ql, ArbitrageWords) THEN Class("arbitrage_analysis", FALSE)
    ELSE IF AnyIn(ql, TrendWords) THEN Class("trend_analysis", FALSE)
    ELSE IF AnyIn(ql, ComparisonWords) THEN Class("comparison", TRUE)
    ELSE Class("unknown", FALSE)

\* line 70
CryptoSymbols == <<"btc", "bitcoin", "eth", "ethereum", "ada", "cardano", "sol", "solana">>

\* lines 73-80
EntityOf(symbol) == CASE symbol \in {"btc", "bitcoin"} -> "BTC"
                      [] symbol \in {"eth", "ethereum"} -> "ETH"
                      [] symbol \in {"ada", "cardano"} -> "ADA"
                      [] symbol \in {"sol", "solana"} -> "SOL"

RECURSIVE EntitiesFrom(_, _)
\* lines 71-80: the loop over crypto_symbols from position i on
EntitiesFrom(ql, i) ==
    IF i > Len(CryptoSymbols) THEN <<>>
    ELSE IF Contains(ql, CryptoSymbols[i])
         THEN <<EntityOf(CryptoSymbols[i])>> \o EntitiesFrom(ql, i + 1)
         ELSE EntitiesFrom(ql, i + 1)

\* lines 51, 82-88: analysis["time_range"]
TimeRangeOf(ql) ==
    IF AnyIn(ql, {"hour", "last hour", "recent"}) THEN "1_hour"
    ELSE IF AnyIn(ql, {"day", "today", "24 hour"}) THEN "1_day"
    ELSE IF AnyIn(ql, {"week", "7 day"}) THEN "1_week"
    ELSE "latest"

\* lines 42-90
AnalyzeUserIntent(q) ==
    LET ql == Lower(q)
    IN  [intent |-> Classify(ql).intent,
         entities |-> EntitiesFrom(ql, 1),
         time_range |-> TimeRangeOf(ql),
         metrics |-> <<>>,
         comparison |-> Classify(ql).comparison]

-----------------------------------------------------------------------------
(* ClaudeCryptoAnalyst._generate_sql.  A line break of a template is "\n";   *)
(* the indentation that follows it in the source is left out.              *)

\* lines 96-103: time_conditions.get(analysis["time_range"], time_conditions["latest"])
TimeFilter(time_range) ==
    CASE time_range = "1_hour" -> "timestamp > dateadd('h', -1, now())"
      [] time_range = "1_day" -> "timestamp > dateadd('d', -1, now())"
      [] time_range = "1_week" -> "timestamp > dateadd('d', -7, now())"
      [] OTHER -> "timestamp > dateadd('m', -15, now())"

\* lines 108, 116, 161: "', '".join(analysis["entities"])
Quoted(entities) == "'" \o Join(entities, "', '") \o "'"

\* lines 106-109
SymbolFilter(entities) ==
    IF entities # <<>> THEN " AND symbol IN (" \o Quoted(entities) \o ")" ELSE ""

\* lines 114-117
WhereClause(entities) ==
    IF entities # <<>> THEN "WHERE symbol IN (" \o Quoted(entities) \o ")" ELSE ""

\* lines 159-162
SymbolWhere(entities) ==
    IF entities # <<>> THEN "WHERE lp1.symbol IN (" \o Quoted(entities) \o ")" ELSE ""

\* lines 119-129
PriceComparisonSql(a) ==
    "\nSELECT\nsymbol,\nexchange,\nprice,\ntimestamp\nFROM crypto_prices"
    \o "\nLATEST ON timestamp PARTITION BY symbol, exchange\n"
    \o WhereClause(a.entities)
    \o "\nORDER BY symbol, exchange\n"

\* lines 131-141
PriceSql(a) ==
    "\nSELECT\nsymbol,\nexchange,\nprice,\ntimestamp\nFROM crypto_prices"
    \o "\nWHERE " \o TimeFilter(a.time_range) \o " " \o SymbolFilter(a.entities)
    \o "\nORDER BY timestamp DESC\nLIMIT 20\n"

\* lines 144-155
VolumeSql(a) ==
    "\nSELECT\nsymbol,\nexchange,\nsum(volume) as total_volume,"
    \o "\navg(volume) as avg_volume,\ncount(*) as data_points\nFROM crypto_prices"
    \o "\nWHERE " \o TimeFilter(a.time_range) \o " " \o SymbolFilter(a.entities)
    \o "\nGROUP BY symbol, exchange\nORDER BY total_volume DESC\n"

\* lines 164-179: the statement up to the end of the JOIN line
ArbitrageSelect ==
    "\nWITH latest_by_exchange AS (\nSELECT symbol, exchange, price\nFROM crypto_prices"
    \o "\nLATEST ON timestamp PARTITION BY symbol, exchange\n)"
    \o "\nSELECT\nlp1.symbol,\nlp1.exchange as exchange1,\nlp1.price as price1,"
    \o "\nlp2.exchange as exchange2,\nlp2.price as price2,"
    \o "\nabs(lp1.price - lp2.price) as price_diff,"
    \o "\n(abs(lp1.price - lp2.price) / ((lp1.price + lp2.price) / 2) * 100) as arbitrage_pct"
    \o "\nFROM latest_by_exchange lp1"
    \o "\nJOIN latest_by_exchange lp2 ON lp1.symbol = lp2.symbol AND lp1.exchange < lp2.exchange"

\* line 181: the threshold condition
ThresholdCondition ==
    "abs(lp1.price - lp2.price) / ((lp1.price + lp2.price) / 2) * 100 > 0.1"

\* as ArbitrageSql, with the threshold condition only where no WHERE precedes it
ArbitrageSqlThresholdInJoinOnly(a) ==
    ArbitrageSelect
    \o "\n" \o SymbolWhere(a.entities)
    \o (IF a.entities = <<>> THEN "\nAND " \o ThresholdCondition ELSE "")
    \o "\nORDER BY arbitrage_pct DESC\n"

\* lines 164-183
ArbitrageSql(a) ==
    ArbitrageSelect
    \o "\n" \o SymbolWhere(a.entities)
    \o "\nAND " \o ThresholdCondition
    \o "\nORDER BY arbitrage_pct DESC\n"

\* lines 186-200
TrendSql(a) ==
    "\nSELECT\nsymbol,\nexchange,\nfirst(price) as earliest_price,"
    \o "\nlast(price) as latest_price,"
    \o "\n(last(price) - first(price)) / first(price) * 100 as price_change_pct,"
    \o "\nmin(price) as min_price,\nmax(price) as max_price,\ncount(*) as data_points"
    \o "\nFROM crypto_prices"
    \o "\nWHERE " \o TimeFilter(a.time_range) \o " " \o SymbolFilter(a.entities)
    \o "\nGROUP BY symbol, exchange\nORDER BY price_change_pct DESC\n"

\* lines 204-210
DefaultSql(a) ==
    "\nSELECT symbol, exchange, price, volume, timestamp\nFROM crypto_prices"
    \o "\nWHERE " \o TimeFilter(a.time_range) \o " " \o SymbolFilter(a.entities)
    \o "\nORDER BY timestamp DESC\nLIMIT 10\n"

\* lines 92-210
GenerateSql(a) ==
    IF a.intent = "price_analysis"
    THEN IF a.comparison THEN PriceComparisonSql(a) ELSE PriceSql(a)
    ELSE IF a.intent = "volume_analysis" THEN VolumeSql(a)
    ELSE IF a.intent = "arbitrage_analysis" THEN ArbitrageSql(a)
    ELSE IF a.intent = "trend_analysis" THEN TrendSql(a)
    ELSE DefaultSql(a)

-----------------------------------------------------------------------------
(* ClaudeCryptoAnalyst._execute_questdb_query and _format_human_response.  *)
(* A result is the parsed JSON object: the keys present and the values of  *)
(* "error", "dataset" (rows of cells) and "columns" (the column names).    *)
(* A cell is a number, held in hundredths, a string, or null.  The         *)
(* pictographs of the texts are left out and the bullet is written "*".    *)

Num(n) == [t |-> "num", n |-> n, s |-> ""]
Str(s) == [t |-> "str", n |-> 0, s |-> s]
Null == [t |-> "null", n |-> 0, s |-> ""]

Result(keys, error, dataset, columns) ==
    [keys |-> keys, error |-> error, dataset |-> dataset, columns |-> columns]

\* line 224: {"error": str(e)}
ErrorResult(text) == Result({"error"}, text, <<>>, <<>>)

\* str(e) of the exception a failed query request ends in
QueryErrorText(kind) ==
    CASE kind = "exc" -> "Connection refused"                    \* line 217
      [] kind = "status" -> "400 Client Error: Bad request"      \* line 221
      [] kind = "notjson" -> "Expecting value"                   \* line 222

QueryErrorClass(kind) ==
    CASE kind = "exc" -> "ConnectionError"
      [] kind = "status" -> "HTTPError"
      [] kind = "notjson" -> "ValueError"

\* as ExecuteQuestdbQuery, asking a second time after a failed request
ExecuteQuestdbQueryRetry(sql, resp) ==
    IF resp.kind = "json"
    THEN [raised |-> FALSE, results |-> resp.body, requests |-> <<ExecReq(sql)>>]
    ELSE [raised |-> FALSE, results |-> ErrorResult(QueryErrorText(resp.kind)),
          requests |-> <<ExecReq(sql), ExecReq(sql)>>]

\* lines 212-224; [raised, results, requests]
ExecuteQuestdbQuery(sql, resp) ==
    LET reqs == <<ExecReq(sql)>>                                  \* lines 217-220
    IN  IF resp.kind = "json"
        THEN [raised |-> FALSE, results |-> resp.body, requests |-> reqs]
        ELSE IF Catches("Exception", QueryErrorClass(resp.kind))
        THEN [raised |-> FALSE, results |-> ErrorResult(QueryErrorText(resp.kind)),
              requests |-> reqs]
        ELSE [raised |-> TRUE, results |-> <<>>, requests |-> reqs]

Has(seq, x) == \E i \in 1..Len(seq) : seq[i] = x

\* list.index
IndexOf(seq, x) == CHOOSE i \in 1..Len(seq) : seq[i] = x /\ \A j \in 1..(i - 1) : seq[j] # x

RECURSIVE SumSeq(_)
SumSeq(ns) == IF ns = <<>> THEN 0 ELSE Head(ns) + SumSeq(Tail(ns))

MinOf(ns) == CHOOSE m \in Range(ns) : \A n \in Range(ns) : m <= n
MaxOf(ns) == CHOOSE m \in Range(ns) : \A n \in Range(ns) : m >= n

\* a / b to the nearest hundredth, a in hundredths (a >= 0, b > 0)
DivRound(a, b) == (2 * a + b) \div (2 * b)

TwoDigits(n) == Digit(n \div 10) \o Digit(n % 10)

RECURSIVE Grouped(_)
\* the digits of n >= 0 with a comma between groups of three
Grouped(n) ==
    IF n < 1000 THEN NatStr(n)
    ELSE Grouped(n \div 1000) \o "," \o Digit((n % 1000) \div 100) \o TwoDigits(n % 100)

\* f"{x:.2f}", x in hundredths
Fixed2(v) == IF v < 0 THEN "-" \o NatStr((0 - v) \div 100) \o "." \o TwoDigits((0 - v) % 100)
             ELSE NatStr(v \div 100) \o "." \o TwoDigits(v % 100)

\* f"{x:,.2f}", x in hundredths
Money(v) == IF v < 0 THEN "-" \o Grouped((0 - v) \div 100) \o "." \o TwoDigits((0 - v) % 100)
            ELSE Grouped(v \div 100) \o "." \o TwoDigits(v % 100)

\* str of a float, x in hundredths
FloatStr(v) ==
    LET a == IF v < 0 THEN 0 - v ELSE v
        frac == IF a % 10 = 0 THEN Digit((a % 100) \div 10) ELSE TwoDigits(a % 100)
    IN  (IF v < 0 THEN "-" ELSE "") \o NatStr(a \div 100) \o "." \o frac

\* f"{val}" of a cell
CellStr(c) == CASE c.t = "num" -> FloatStr(c.n)
                [] c.t = "str" -> c.s
                [] OTHER -> "None"

Ok(parts) == [raised |-> FALSE, parts |-> parts]
Raised == [raised |-> TRUE, parts |-> <<>>]

Column(data, idx) == [i \in 1..Len(data) |-> data[i][idx]]
IsNum(c) == c.t = "num"
NotNull(c) == c.t # "null"
Values(cells) == [i \in 1..Len(cells) |-> cells[i].n]

\* lines 245-253
PriceParts(data, columns) ==
    IF ~Has(columns, "price") THEN Ok(<<>>)
    ELSE LET prices == SelectSeq(Column(data, IndexOf(columns, "price")), NotNull)
         IN  IF prices = <<>> THEN Ok(<<>>)
             ELSE IF \E i \in 1..Len(prices) : ~IsNum(prices[i])
             THEN Raised                                   \* sum raises TypeError
             ELSE LET ns == Values(prices)
                  IN  Ok(<<"\nPrice Analysis:",
                           "   * Average Price: $" \o Money(DivRound(SumSeq(ns), Len(ns))),
                           "   * Price Range: $" \o Money(MinOf(ns)) \o " - $"
                               \o Money(MaxOf(ns))>>)

\* line 256: the bound of "> 1.0", in hundredths
OnePercent == 100

\* line 260: arb_opportunities[:3]; line 278: data[:3]
ShownRows == 3

FirstRows(rows) == SubSeq(rows, 1, IF Len(rows) < ShownRows THEN Len(rows) ELSE ShownRows)

\* line 265
OpportunityLine(opp, columns) ==
    "   * " \o CellStr(opp[IndexOf(columns, "symbol")]) \o ": "
    \o Fixed2(opp[IndexOf(columns, "arbitrage_pct")].n) \o "% between "
    \o CellStr(opp[IndexOf(columns, "exchange1")]) \o " and "
    \o CellStr(opp[IndexOf(columns, "exchange2")])

\* lines 255-267
ArbitrageParts(data, columns) ==
    IF ~Has(columns, "arbitrage_pct") THEN Ok(<<>>)
    ELSE LET idx == IndexOf(columns, "arbitrage_pct")
             Above(row) == row[idx].n > OnePercent
             opps == SelectSeq(data, Above)
             shown == FirstRows(opps)
         IN  IF \E i \in 1..Len(data) : ~IsNum(data[i][idx])
             THEN Raised                                   \* line 256 raises TypeError
             ELSE IF opps = <<>>
             THEN Ok(<<"\nArbitrage Opportunities:",
                       "   * No significant arbitrage opportunities found (>1%)">>)
             ELSE IF ~(Has(columns, "symbol") /\ Has(columns, "exchange1")
                       /\ Has(columns, "exchange2"))
             THEN Raised                                   \* lines 261-263 raise ValueError
             ELSE Ok(<<"\nArbitrage Opportunities:",
                       "   * Found " \o NatStr(Len(opps)) \o " opportunities > 1%">>
                     \o [i \in 1..Len(shown) |-> OpportunityLine(shown[i], columns)])

\* lines 269-274
VolumeParts(data, columns) ==
    IF ~Has(columns, "total_volume") THEN Ok(<<>>)
    ELSE LET volumes == Column(data, IndexOf(columns, "total_volume"))
         IN  IF \E i \in 1..Len(volumes) : ~IsNum(volumes[i])
             THEN Raised                                   \* line 271 raises TypeError
             ELSE LET total == SumSeq(Values(volumes))
                  IN  Ok(<<"\nVolume Analysis:",
                           "   * Total Volume: " \o Money(total),
                           "   * Average per Exchange: "
                               \o Money(DivRound(total, Len(volumes)))>>)

\* line 279: zip(columns, row)
RowStr(columns, row) ==
    LET n == IF Len(columns) < Len(row) THEN Len(columns) ELSE Len(row)
    IN  Join([k \in 1..n |-> columns[k] \o ": " \o CellStr(row[k])], " | ")

\* lines 277-283
SampleParts(data, columns) ==
    LET shown == FirstRows(data)
    IN  <<"\nSample Data:">>
        \o [i \in 1..Len(shown) |-> "   " \o NatStr(i) \o ". " \o RowStr(columns, shown[i])]
        \o (IF Len(data) > ShownRows
            THEN <<"   ... and " \o NatStr(Len(data) - ShownRows) \o " more records">>
            ELSE <<>>)

\* as ErrorText, without the error's own text
ErrorTextOnly(error) ==
    "I encountered an error while analyzing your crypto data: "

\* line 231
ErrorText(error) ==
    "I encountered an error while analyzing your crypto data: " \o error

\* line 234
NoDataText ==
    "I couldn't find any matching crypto data for your query. "
    \o "The database might be empty or the time range might be too restrictive."

\* as HeaderParts, with the two counts exchanged
HeaderPartsSwapped(data, columns, q) ==
    <<"Based on your question '" \o q \o "', here's what I found:",
      "\nFound " \o NatStr(Len(columns)) \o " records with " \o NatStr(Len(data))
          \o " data points each.">>

\* lines 241-242
HeaderParts(data, columns, q) ==
    <<"Based on your question '" \o q \o "', here's what I found:",
      "\nFound " \o NatStr(Len(data)) \o " records with " \o NatStr(Len(columns))
          \o " data points each.">>

\* lines 226-285; [raised, text]
FormatHumanResponse(res, q) ==
    IF "error" \in res.keys
    THEN [raised |-> FALSE, text |-> ErrorText(res.error)]
    ELSE IF "dataset" \notin res.keys \/ res.dataset = <<>>
    THEN [raised |-> FALSE, text |-> NoDataText]
    ELSE LET data == res.dataset
             columns == IF "columns" \in res.keys THEN res.columns ELSE <<>>
             price == PriceParts(data, columns)
             arb == ArbitrageParts(data, columns)
             vol == VolumeParts(data, columns)
         IN  IF price.raised \/ arb.raised \/ vol.raised
             THEN [raised |-> TRUE, text |-> ""]
             ELSE [raised |-> FALSE,
                   text |-> Join(HeaderParts(data, columns, q) \o price.parts
                                 \o arb.parts \o vol.parts
                                 \o SampleParts(data, columns), "\n")]

-----------------------------------------------------------------------------
(* ask_claude: the questions asked and the answers of the query endpoint *)

\* the words questions are made of: keywords of every list, in either
\* case, words that hold a keyword of another list, and a filler
QuestionWords ==
    {"price", "Cost", "volume", "activity", "arbitrage", "spread", "trend", "change",
     "compare", "vs", "BTC", "bitcoin", "ethereum", "ada", "solana",
     "hour", "last hour", "recent", "day", "today", "24 hour", "7 day", "week",
     "show"}

Questions == {Join(ws, " ") : ws \in SeqsUpTo(QuestionWords, MaxWords)}

\* the questions put to a whole ask_claude call
AskQuestions == {"BTC price", "arbitrage opportunity", "show"}

PriceColumns == <<"symbol", "exchange", "price", "timestamp">>
PriceRows ==
    {<<Str("BTC"), Str("binance"), p, Str("2024-01-01T00:00:00.000000Z")>> :
        p \in {Num(6000000), Num(6100050), Null}}

ArbitrageColumns == <<"symbol", "exchange1", "price1", "exchange2", "price2",
                      "price_diff", "arbitrage_pct">>
ArbitrageRowsOf(pcts) ==
    {<<Str("BTC"), Str("binance"), Num(6000000), Str("kraken"), Num(6100000),
       Num(100000), a>> : a \in pcts}

VolumeColumns == <<"symbol", "exchange", "total_volume", "avg_volume", "data_points">>
VolumeRows ==
    {<<Str("ETH"), Str("coinbase"), v, Num(50000), Num(300)>> :
        v \in {Num(150000), Num(25050), Null}}

Table(columns, rows) ==
    {Result({"columns", "dataset"}, "", d, columns) :
        d \in SeqsUpTo(rows, MaxRows)}

\* the JSON bodies a 2xx answer may carry
QueryBodies ==
    {Result({"query"}, "", <<>>, <<>>),
     Result({"error"}, "table does not exist", <<>>, <<>>),
     Result({"dataset"}, "", <<<<Str("BTC"), Num(150)>>>>, <<>>),
     Result({"columns", "dataset"}, "", <<<<Num(150)>>>>, <<"arbitrage_pct">>)}
    \cup Table(PriceColumns, PriceRows)
    \cup Table(ArbitrageColumns, ArbitrageRowsOf({Num(50), Num(100), Num(150), Num(250), Null}))
    \cup Table(VolumeColumns, VolumeRows)

\* what the network answers to the query request: "exc" requests.get
\* raised, "status" an error status, "notjson" a body that is no JSON,
\* "json" a parsed body
QueryResponses ==
    [kind : {"exc", "status", "notjson"}, body : {<<>>}]
    \cup [kind : {"json"}, body : QueryBodies]

AskIdle ==
    /\ apc = "idle" /\ analysis = <<>> /\ sql_query = "" /\ qresponse = <<>>
    /\ results = <<>> /\ response = "" /\ araised = FALSE /\ arequests = <<>>

NoIngestion ==
    /\ pc = "off" /\ op = "none" /\ symbols = <<>> /\ crypto_data = <<>> /\ net = <<>>
    /\ ret = <<>> /\ raised = FALSE /\ requests = <<>> /\ logs = <<>>
    /\ NoPipeline

\* line 35
AnalyzeIntent ==
    /\ apc = "idle"
    /\ analysis' = AnalyzeUserIntent(question)
    /\ apc' = "analyzed"
    /\ UNCHANGED <<question, sql_query, qresponse, results, response, araised,
                   arequests, fetchVars, pipeVars,
                   crypto_prices>>

\* line 36
GenerateSqlStep ==
    /\ apc = "analyzed"
    /\ sql_query' = GenerateSql(analysis)
    /\ apc' = "generated"
    /\ UNCHANGED <<question, analysis, qresponse, results, response, araised,
                   arequests, fetchVars, pipeVars,
                   crypto_prices>>

\* line 37
ExecuteQuery ==
    /\ apc = "generated"
    /\ \E resp \in QueryResponses :
          LET r == ExecuteQuestdbQuery(sql_query, resp)
          IN  /\ qresponse' = resp
              /\ arequests' = arequests \o r.requests
              /\ araised' = r.raised
              /\ results' = r.results
              /\ apc' = IF r.raised THEN "done" ELSE "executed"
    /\ UNCHANGED <<question, analysis, sql_query, response, fetchVars, pipeVars,
                   crypto_prices>>

\* lines 38-40
FormatResponse ==
    /\ apc = "executed"
    /\ LET f == FormatHumanResponse(results, question)
       IN  /\ araised' = f.raised
           /\ response' = f.text
    /\ apc' = "done"
    /\ UNCHANGED <<question, analysis, sql_query, qresponse, results, arequests,
                   fetchVars, pipeVars,
                   crypto_prices>>

\* classification and templating of every question
InitIntent ==
    AskIdle /\ question \in Questions /\ NoIngestion /\ crypto_prices = {}
NextIntent == AnalyzeIntent \/ GenerateSqlStep
SpecIntent == InitIntent /\ [][NextIntent]_vars

\* whole ask_claude calls
InitAsk ==
    AskIdle /\ question \in AskQuestions /\ NoIngestion /\ crypto_prices = {}
NextAsk == AnalyzeIntent \/ GenerateSqlStep \/ ExecuteQuery \/ FormatResponse
SpecAsk == InitAsk /\ [][NextAsk]_vars

-----------------------------------------------------------------------------
(* The arbitrage query of lines 164-183 run on the rows of crypto_prices.  *)
(* A row of the table is [symbol, exchange, price, timestamp]; the prices  *)
(* are whole amounts, on which the exact arithmetic here and the double    *)
(* arithmetic of the database agree.                                       *)

MaxTableRows == 3

TableSymbols == {"BTC", "ETH"}
TableExchanges == {"binance", "coinbase", "kraken"}
TablePrices == {0, 1999, 2001, 2003}
TableTimes == {1, 2}

TableRows ==
    [symbol : TableSymbols, exchange : TableExchanges, price : TablePrices,
     timestamp : TableTimes]

RECURSIVE SubsetsUpTo(_, _)
\* the subsets of S with at most n elements
SubsetsUpTo(S, n) ==
    IF n = 0 THEN {{}}
    ELSE LET smaller == SubsetsUpTo(S, n - 1)
         IN  smaller \cup {t \cup {r} : t \in smaller, r \in S}

Tables == SubsetsUpTo(TableRows, MaxTableRows)

\* line 179: the order of lp1.exchange < lp2.exchange on the exchange names
ExchangeRank(e) ==
    CASE e = "binance" -> 1
      [] e = "coinbase" -> 2
      [] e = "kraken" -> 3

Abs(n) == IF n < 0 THEN 0 - n ELSE n

\* lines 166-169: LATEST ON timestamp PARTITION BY symbol, exchange keeps for
\* each symbol and exchange one row with the greatest timestamp; which one
\* of several rows with that timestamp is the database's choice
IsLatestByExchange(snapshot, table) ==
    /\ snapshot \subseteq table
    /\ \A r \in table :
          \E l \in snapshot :
              /\ l.symbol = r.symbol /\ l.exchange = r.exchange
              /\ l.timestamp >= r.timestamp
    /\ \A l1, l2 \in snapshot :
          (l1.symbol = l2.symbol /\ l1.exchange = l2.exchange) => l1 = l2

\* line 181: abs(p1 - p2) / ((p1 + p2) / 2) * 100 > 0.1; the quotient is
\* NaN or infinite when the prices add up to 0 and negative when they add
\* up to less, and the comparison is then false
AboveThreshold(p1, p2) == p1 + p2 > 0 /\ 2000 * Abs(p1 - p2) > p1 + p2

\* what the database reads in the statement: whether the threshold
\* condition is in it (a conjunct of the ON condition when no WHERE
\* precedes it, of the WHERE condition otherwise), whether it has the
\* WHERE lp1.symbol IN (...) filter of line 180, and the symbols listed
ParsedStatement(sql) ==
    LET rest == SubSeq(sql, Len(ArbitrageSelect) + 1, Len(sql))
    IN  [threshold |-> Contains(rest, "\nAND " \o ThresholdCondition \o "\n"),
         where |-> StartsWith(rest, "\nWHERE lp1.symbol IN ("),
         listed |-> {symbol \in TableSymbols : Contains(rest, "'" \o symbol \o "'")}]

\* lines 178-181: the pairs the join and the conditions keep
JoinedPairs(stmt, snapshot) ==
    {pair \in snapshot \X snapshot :
        /\ pair[1].symbol = pair[2].symbol
        /\ ExchangeRank(pair[1].exchange) < ExchangeRank(pair[2].exchange)
        /\ stmt.where => pair[1].symbol \in stmt.listed
        /\ stmt.threshold => AboveThreshold(pair[1].price, pair[2].price)}

\* line 177: arbitrage_pct, in hundredths of a percent; null when NaN
ArbitragePct(p1, p2) ==
    IF p1 + p2 = 0 THEN Null
    ELSE Num(DivRound(20000 * Abs(p1 - p2), p1 + p2))

\* lines 171-177: the selected columns of one pair
ArbitrageRow(pair) ==
    <<Str(pair[1].symbol), Str(pair[1].exchange), Num(100 * pair[1].price),
      Str(pair[2].exchange), Num(100 * pair[2].price),
      Num(100 * Abs(pair[1].price - pair[2].price)),
      ArbitragePct(pair[1].price, pair[2].price)>>

\* line 182: a pair of prices p may come before a pair of prices q in
\* ORDER BY arbitrage_pct DESC; nulls come last
PctNotBelow(p, q) ==
    \/ q[1].price + q[2].price = 0
    \/ /\ p[1].price + p[2].price > 0
       /\ Abs(p[1].price - p[2].price) * (q[1].price + q[2].price)
              >= Abs(q[1].price - q[2].price) * (p[1].price + p[2].price)

\* line 182: the orders in which the database may return the pairs
Ordered(pairs) ==
    {o \in [1..Cardinality(pairs) -> pairs] :
        /\ \A i, j \in DOMAIN o : i # j => o[i] # o[j]
        /\ \A i, j \in DOMAIN o : i < j => PctNotBelow(o[i], o[j])}

\* the results the arbitrage statement may have on a table
ArbitrageResults(sql, table) ==
    LET stmt == ParsedStatement(sql)
        snapshots == {x \in SUBSET table : IsLatestByExchange(x, table)}
    IN  {Result({"query", "columns", "dataset", "count"}, "",
                [i \in DOMAIN o |-> ArbitrageRow(o[i])], ArbitrageColumns) :
            o \in UNION {Ordered(JoinedPairs(stmt, snapshot)) : snapshot \in snapshots}}

\* the questions asked of the table
ArbitrageQuestions ==
    {"arbitrage", "BTC arbitrage", "ETH spread today", "BTC ETH spread"}

\* line 37, the database answering the arbitrage statement from its table
ExecuteArbitrageQuery ==
    /\ apc = "generated"
    /\ StartsWith(sql_query, ArbitrageSelect)
    /\ \E body \in ArbitrageResults(sql_query, crypto_prices) :
          LET resp == [kind |-> "json", body |-> body]
              r == ExecuteQuestdbQuery(sql_query, resp)
          IN  /\ qresponse' = resp
              /\ arequests' = arequests \o r.requests
              /\ araised' = r.raised
              /\ results' = r.results
              /\ apc' = IF r.raised THEN "done" ELSE "executed"
    /\ UNCHANGED <<question, analysis, sql_query, response, fetchVars, pipeVars,
                   crypto_prices>>

\* arbitrage questions on every table
InitArbitrage ==
    /\ AskIdle /\ NoIngestion
    /\ question \in ArbitrageQuestions
    /\ crypto_prices \in Tables
NextArbitrage == AnalyzeIntent \/ GenerateSqlStep \/ ExecuteArbitrageQuery
SpecArbitrage == InitArbitrage /\ [][NextArbitrage]_vars

-----------------------------------------------------------------------------
(* Properties of the analyst component *)

\* the keywords of the five intents, in the order the spec lists the intents
IntentKeywordSets ==
    <<{"price", "cost", "value"},
      {"volume", "trading", "activity"},
      {"arbitrage", "difference", "spread", "opportunity"},
      {"trend", "change", "movement", "performance"},
      {"compare", "vs", "versus", "between"}>>

IntentNames == <<"price_analysis", "volume_analysis", "arbitrage_analysis",
                 "trend_analysis", "comparison">>

Classified == apc \in {"analyzed", "generated"}

\* C2: a question with none of the intent keywords is classified 'unknown'
\* and gets the default template (SELECT symbol, exchange, price, volume,
\* timestamp ... ORDER BY timestamp DESC LIMIT 10), whatever entities and
\* time window it matched.
C2_UnknownGetsDefaultTemplate ==
    (/\ apc = "generated"
     /\ \A k \in 1..5 : ~AnyIn(Lower(question), IntentKeywordSets[k]))
    => /\ analysis.intent = "unknown"
       /\ StartsWith(sql_query,
              "\nSELECT symbol, exchange, price, volume, timestamp\nFROM crypto_prices\nWHERE ")
       /\ EndsWith(sql_query, "\nORDER BY timestamp DESC\nLIMIT 10\n")

C2_Witness ==
    /\ apc = "generated" /\ question = "bitcoin today"
    /\ analysis.intent = "unknown" /\ analysis.entities = <<"BTC">>
    /\ analysis.time_range = "1_day"
    /\ EndsWith(sql_query, " AND symbol IN ('BTC')\nORDER BY timestamp DESC\nLIMIT 10\n")

\* C3: the intent is that of the first keyword set, in the order price,
\* volume, arbitrage, trend, comparison, with a keyword occurring in the
\* lowercased question, and 'unknown' when no set has one.
C3_FirstMatchWins ==
    Classified =>
        LET ql == Lower(question)
        IN  /\ \A k \in 1..5 :
                  (/\ AnyIn(ql, IntentKeywordSets[k])
                   /\ \A j \in 1..(k - 1) : ~AnyIn(ql, IntentKeywordSets[j]))
                  => analysis.intent = IntentNames[k]
            /\ (\A k \in 1..5 : ~AnyIn(ql, IntentKeywordSets[k]))
                  => analysis.intent = "unknown"

C3_Witness ==
    /\ Classified /\ question = "volume Cost"
    /\ analysis.intent = "price_analysis"

\* _format_human_response has been called and has returned a text
FormatReturned == apc = "done" /\ ~araised

ResultColumns == IF "columns" \in results.keys THEN results.columns ELSE <<>>

ResultData == IF "dataset" \in results.keys THEN results.dataset ELSE <<>>

HeaderLine ==
    "Found " \o NatStr(Len(ResultData)) \o " records with "
    \o NatStr(Len(ResultColumns)) \o " data points each."

\* C5 as stated: whatever result the formatter is given, the text it
\* returns includes the header line with the record and column counts.
C5_HeaderAlways ==
    FormatReturned => Contains(response, HeaderLine)

\* C5 as amended: for a result that has no 'error' entry and a non-empty
\* dataset the formatter either raises or returns a text that includes the
\* header line with the record and column counts; for a result with an
\* 'error' entry, or with a missing or empty dataset, it returns the error
\* text or the no-data text, neither of which has a header line.
C5_HeaderForData ==
    apc = "done" =>
        IF "error" \notin results.keys /\ ResultData # <<>>
        THEN araised \/ Contains(response, HeaderLine)
        ELSE /\ ~araised
             /\ ~Contains(response, "Found ")
             /\ ~Contains(response, " data points each.")

C5_Witness ==
    /\ FormatReturned
    /\ Len(results.dataset) = 4 /\ results.columns = ArbitrageColumns
    /\ Contains(response, "\nFound 4 records with 7 data points each.\n")

\* C7: ask_claude never raises: whatever the query request's outcome, a text
\* is returned to the caller.
C7_AskNeverRaises == apc = "done" => ~araised

\* the prices of row i of the dataset returned for the arbitrage statement,
\* in hundredths
Price1(i) == results.dataset[i][3].n
Price2(i) == results.dataset[i][5].n

\* C4: every row the arbitrage statement returns has a relative price
\* difference abs(p1-p2)/((p1+p2)/2)*100 strictly greater than 0.1, whatever
\* the table holds and whether the question named symbols (threshold after
\* the WHERE symbol filter) or not (threshold on the JOIN ... ON clause).
C4_NoPairAtOrBelowThreshold ==
    (apc = "executed" /\ analysis.intent = "arbitrage_analysis") =>
        \A i \in 1..Len(results.dataset) :
            /\ Price1(i) + Price2(i) > 0
            /\ 1000 * Abs(Price1(i) - Price2(i)) * 2 > Price1(i) + Price2(i)

C4_Witness ==
    /\ apc = "executed" /\ analysis.entities = <<"BTC">>
    /\ crypto_prices =
          {[symbol |-> "BTC", exchange |-> "binance", price |-> 1999, timestamp |-> 1],
           [symbol |-> "BTC", exchange |-> "coinbase", price |-> 2001, timestamp |-> 1],
           [symbol |-> "BTC", exchange |-> "kraken", price |-> 2003, timestamp |-> 2]}
    /\ Len(results.dataset) = 1
    /\ results.dataset[1][2] = Str("binance") /\ results.dataset[1][4] = Str("kraken")
    /\ results.dataset[1][7] = Num(20)

\* the time-window clause the spec gives for a time_range
WindowClause(time_range) ==
    IF time_range = "1_hour" THEN "timestamp > dateadd('h', -1, now())"
    ELSE IF time_range = "1_day" THEN "timestamp > dateadd('d', -1, now())"
    ELSE IF time_range = "1_week" THEN "timestamp > dateadd('d', -7, now())"
    ELSE "timestamp > dateadd('m', -15, now())"

\* C11: the generated query text contains the time-window clause of the
\* classification's time_range and, exactly when the entity list is not
\* empty, a symbol IN (...) filter listing the entities; for every template,
\* the arbitrage template included.
C11_WindowAndEntityFilter ==
    apc = "generated" =>
        /\ Contains(sql_query, WindowClause(analysis.time_range))
        /\ IF analysis.entities # <<>>
           THEN Contains(sql_query,
                    "symbol IN ('" \o Join(analysis.entities, "', '") \o "')")
           ELSE ~Contains(sql_query, "symbol IN (")

\* the part of C11 that fails is the time window of the arbitrage template:
\* every other generated text has the clause, and every text has the filter
C11_OnlyArbitrageLacksWindow ==
    apc = "generated" =>
        /\ analysis.intent # "arbitrage_analysis"
              => Contains(sql_query, WindowClause(analysis.time_range))
        /\ analysis.intent = "arbitrage_analysis" => ~Contains(sql_query, "dateadd")
        /\ IF analysis.entities # <<>>
           THEN Contains(sql_query,
                    "symbol IN ('" \o Join(analysis.entities, "', '") \o "')")
           ELSE ~Contains(sql_query, "symbol IN (")

-----------------------------------------------------------------------------
(* Further properties of the ingestion component *)

Ingested == pc = "ingested" /\ op = "ingest_crypto_data"

\* the columns of the INSERT statement, in order
InsertFields == <<"timestamp", "symbol", "exchange", "price", "volume", "bid",
                  "ask", "spread", "market_cap">>

\* the text of field f of record r in a VALUES tuple
FieldText(r, f) ==
    IF f \in {"timestamp", "symbol", "exchange"} THEN "'" \o r[f] \o "'"
    ELSE NumStr(r[f])

TupleText(r) ==
    "(" \o Join([k \in 1..Len(InsertFields) |-> FieldText(r, InsertFields[k])], ",") \o ")"

\* C12: for a non-empty record list ingest_crypto_data issues exactly one
\* request, to /exec, carrying one INSERT statement whose VALUES list has one
\* tuple per input record, in input order, each with the nine fields in the
\* order timestamp, symbol, exchange, price, volume, bid, ask, spread,
\* market_cap.
C12_OneInsertOneTuplePerRecord ==
    (Ingested /\ crypto_data # <<>>) =>
        /\ Len(requests) = 1
        /\ requests[1].api = "questdb" /\ requests[1].endpoint = "exec"
        /\ requests[1].param =
              "\nINSERT INTO crypto_prices"
              \o "\n(timestamp, symbol, exchange, price, volume, bid, ask, spread, market_cap)"
              \o "\nVALUES "
              \o Join([i \in 1..Len(crypto_data) |-> TupleText(crypto_data[i])], ",")
              \o "\n"

C12_Witness ==
    /\ Ingested /\ Len(crypto_data) = 2
    /\ crypto_data[1].symbol = "ETH" /\ crypto_data[2].symbol = "BTC"
    /\ crypto_data[1].bid # crypto_data[1].ask
    /\ Len(requests) = 1
    /\ Contains(requests[1].param, "),(")

\* C15: for a non-empty record list ingest_crypto_data returns True exactly
\* when its single request completed with a non-error status, returns False
\* without raising when the request raised or the status was an error, and
\* leaves the list it was given as it was.
C15_IngestReturnsRequestOutcome ==
    [][(pc = "fetched" /\ pc' = "ingested" /\ ret # <<>>) =>
          /\ ~raised'
          /\ ret' \in BOOLEAN
          /\ ret' = (net' = "ok")
          /\ Len(requests') = 1
          /\ crypto_data' = ret]_vars

C15_Witness ==
    /\ Ingested /\ crypto_data # <<>>
    /\ net = "exc" /\ ret = FALSE /\ ~raised /\ Len(requests) = 1

-----------------------------------------------------------------------------
(* Further properties of the analyst component *)

\* C13: an ask_claude call makes exactly one request, to /exec with the
\* generated statement, after classification and SQL generation and before
\* formatting; it makes it once also when the request fails.
C13_OneQueryRequest ==
    /\ apc \in {"idle", "analyzed", "generated"} => arequests = <<>>
    /\ apc \in {"executed", "done"} =>
          /\ Len(arequests) = 1
          /\ arequests[1].api = "questdb" /\ arequests[1].endpoint = "exec"
          /\ arequests[1].param = sql_query
          /\ analysis # <<>> /\ sql_query # ""
    /\ apc = "executed" => response = ""

C13_Witness ==
    /\ apc = "done" /\ qresponse.kind = "exc"
    /\ Len(arequests) = 1 /\ Contains(response, "Connection refused")

\* the formatter was given a non-empty result with an arbitrage_pct column
ArbitrageResult ==
    /\ apc = "done" /\ "error" \notin results.keys
    /\ ResultData # <<>> /\ Has(ResultColumns, "arbitrage_pct")

\* the position of the arbitrage_pct column in the result
PctColumn == CHOOSE k \in 1..Len(ResultColumns) : ResultColumns[k] = "arbitrage_pct"

\* the rows of the result whose arbitrage_pct is a number above 1.0
AboveOnePercent ==
    LET Above(row) == row[PctColumn].t = "num" /\ row[PctColumn].n > 100
    IN  SelectSeq(ResultData, Above)

Occurrences(s, w) ==
    Cardinality({i \in 0..(Len(s) - Len(w)) : SubSeq(s, i + 1, i + Len(w)) = w})

Min(a, b) == IF a < b THEN a ELSE b

\* what C14 says the returned text reports
ArbitrageReport ==
    LET n == Len(ResultData)
        k == Len(AboveOnePercent)
    IN  /\ k > 0 => Contains(response, "\n   * Found " \o NatStr(k) \o " opportunities > 1%\n")
        /\ Contains(response, "No significant arbitrage opportunities found") <=> k = 0
        /\ Occurrences(response, "% between ") = Min(3, k)
        /\ \A i \in 1..Min(3, k) :
              Contains(response, ": " \o Fixed2(AboveOnePercent[i][PctColumn].n) \o "% between ")
        /\ \A i \in 1..(n + 1) :
              Contains(response, "\n   " \o NatStr(i) \o ". ") <=> i <= Min(3, n)
        /\ n > 3 => Contains(response, "\n   ... and " \o NatStr(n - 3) \o " more records")
        /\ Contains(response, " more records") <=> n > 3

\* C14: for a non-empty result with an arbitrage_pct column the formatter
\* reports as the opportunity count the number of rows whose arbitrage_pct is
\* above 1.0, lists at most the first three of them, reports 'No significant
\* arbitrage opportunities found' exactly when the number is zero, lists the
\* first min(3, n) rows as the sample and adds '... and n-3 more records'
\* exactly when n > 3.
C14_ArbitrageReport ==
    ArbitrageResult => (~araised /\ ArbitrageReport)

\* what holds of C14: the report is as stated whenever a text is returned
C14_ReportWhenReturned ==
    (ArbitrageResult /\ ~araised) => ArbitrageReport

C14_Reported ==
    /\ ArbitrageResult /\ ~araised
    /\ Len(ResultData) = 4 /\ Len(AboveOnePercent) = 4
    /\ Contains(response, "Found 4 opportunities > 1%")

\* the texts of the aggregates and of the listing
NoAggregate ==
    /\ ~Contains(response, "Found ")
    /\ ~Contains(response, "Analysis:")
    /\ ~Contains(response, "Arbitrage Opportunities")
    /\ ~Contains(response, "Sample Data")

C16_NoDataReached ==
    /\ apc = "done" /\ qresponse.kind = "json"
    /\ "dataset" \in results.keys /\ results.dataset = <<>>
    /\ StartsWith(response, "I couldn't find any matching crypto data")

-----------------------------------------------------------------------------
(* Properties of fetch_binance_data and of demonstrate_crypto_pipeline *)

BinanceReturned == pc = "fetched" /\ op = "fetch_binance_data"

\* the position of the first symbol whose price request is answered 451,
\* and one past the list when there is none
FirstBlocked ==
    LET blocked == {i \in 1..Len(symbols) : net[i].price = "451"}
    IN  IF blocked = {} THEN Len(symbols) + 1
        ELSE CHOOSE i \in blocked : \A j \in blocked : i <= j

\* the positions before the first blocked one whose record could be built
BuiltBeforeBlocked ==
    LET Built(i) == net[i].price = "ok"
    IN  SelectSeq([i \in 1..(FirstBlocked - 1) |-> i], Built)

\* C17: once a price request is answered 451 no further Binance request is
\* issued, for that symbol or a later one, and the function returns exactly
\* the records built for the symbols before it; any other failure skips only
\* its symbol and the loop goes on with the next one.
C17_BlockedStopsOthersSkip ==
    BinanceReturned =>
        /\ ~raised
        /\ \A k \in 1..Len(requests) :
              \/ requests[k].pos < FirstBlocked
              \/ requests[k].pos = FirstBlocked /\ requests[k].endpoint = "ticker/price"
        /\ \A i \in 1..Len(symbols) :
              (i <= FirstBlocked) =>
                  Cardinality({k \in 1..Len(requests) :
                                  /\ requests[k].pos = i
                                  /\ requests[k].endpoint = "ticker/price"
                                  /\ requests[k].param = symbols[i] \o "USDT"}) = 1
        /\ Len(ret) = Len(BuiltBeforeBlocked)
        /\ \A j \in 1..Len(ret) :
              /\ ret[j].symbol = symbols[BuiltBeforeBlocked[j]]
              /\ ret[j].exchange = "binance"

C17_Witness ==
    /\ BinanceReturned /\ symbols = <<"BTC", "ETH">>
    /\ net[1].price = "ok" /\ net[2].price = "451"
    /\ Len(ret) = 1 /\ ret[1].symbol = "BTC"
    /\ requests[Len(requests)] = [api |-> "binance", endpoint |-> "ticker/price",
                                  param |-> "ETHUSDT", pos |-> 2]

\* a failure other than 451 on the first symbol, the second one fetched
C17_SkipReached ==
    /\ BinanceReturned /\ symbols = <<"ETH", "BTC">>
    /\ net[1].price = "err" /\ Len(ret) = 1 /\ ret[1].symbol = "BTC"

\* the calls demonstrate_crypto_pipeline makes before the insert, in order
CallsBeforeInsert ==
    <<"create_crypto_table", "fetch_binance_data", "fetch_coinbase_data",
      "fetch_coingecko_data", "fetch_kraken_data">>

\* the number of records the four fetchers returned
FetchedRecords ==
    Len(fetched.binance) + Len(fetched.coinbase) + Len(fetched.coingecko)
    + Len(fetched.kraken)

InsertCalls == {k \in 1..Len(calls) : calls[k] = "ingest_crypto_data"}

\* C18: if create_crypto_table fails no fetcher is called and no insert is
\* attempted; if it succeeds the bulk insert is called exactly once when the
\* four fetchers together returned a record and never when they returned
\* none, and always after all four fetchers have returned.
C18_InsertOnceAfterFetchers ==
    /\ (ppc = "done" /\ ~table_created) =>
          /\ calls = <<"create_crypto_table">>
          /\ insert_arg = <<>>
          /\ Len(db_requests) = 1
    /\ (ppc = "done" /\ table_created) =>
          /\ SubSeq(calls, 1, 5) = CallsBeforeInsert
          /\ Cardinality(InsertCalls) = (IF FetchedRecords > 0 THEN 1 ELSE 0)
          /\ Len(insert_arg) = Cardinality(InsertCalls)
    /\ \A k \in InsertCalls :
          k = 6 /\ SubSeq(calls, 1, 5) = CallsBeforeInsert

C18_Witness ==
    /\ ppc = "done" /\ table_created
    /\ fetched.binance = <<>> /\ fetched.kraken = <<>> /\ FetchedRecords > 0
    /\ calls = Append(CallsBeforeInsert, "ingest_crypto_data")
    /\ Len(db_requests) = 2

\* the table could not be created
C18_NoTableReached ==
    ppc = "done" /\ ~table_created /\ calls = <<"create_crypto_table">>

\* the table was created and the fetchers returned nothing
C18_NothingFetchedReached ==
    ppc = "done" /\ table_created /\ FetchedRecords = 0 /\ Len(calls) = 5

-----------------------------------------------------------------------------
(* Properties of the time window and of the entities *)

HourKeywords == {"hour", "last hour", "recent"}
DayKeywords == {"day", "today", "24 hour"}
WeekKeywords == {"week", "7 day"}

\* C19: the question consisting exactly of a keyword of a time-window list
\* is given the window of that list, and a question with none of the
\* keywords is given 'latest'.
C19_KeywordGetsItsWindow ==
    Classified =>
        /\ question \in HourKeywords => analysis.time_range = "1_hour"
        /\ question \in DayKeywords => analysis.time_range = "1_day"
        /\ question \in WeekKeywords => analysis.time_range = "1_week"
        /\ ~AnyIn(Lower(question), HourKeywords \cup DayKeywords \cup WeekKeywords)
              => analysis.time_range = "latest"

\* what holds of C19: the window is that of the first list, in the order
\* hour, day, week, with a keyword occurring in the lowercased question, so
\* '24 hour' is given 1_hour and '7 day' is given 1_day
C19_FirstWindowWins ==
    Classified =>
        LET ql == Lower(question)
        IN  analysis.time_range =
               (IF AnyIn(ql, HourKeywords) THEN "1_hour"
                ELSE IF AnyIn(ql, DayKeywords) THEN "1_day"
                ELSE IF AnyIn(ql, WeekKeywords) THEN "1_week"
                ELSE "latest")

C19_DayAsHourReached ==
    Classified /\ question = "24 hour" /\ analysis.time_range = "1_hour"

C19_WeekAsDayReached ==
    Classified /\ question = "7 day" /\ analysis.time_range = "1_day"

\* the place of a canonical symbol in the order BTC, ETH, ADA, SOL
CanonicalRank(e) ==
    CASE e = "BTC" -> 1 [] e = "ETH" -> 2 [] e = "ADA" -> 3 [] e = "SOL" -> 4
      [] OTHER -> 0

\* C20: the entities of every question are canonical symbols of {BTC, ETH,
\* ADA, SOL}, in the order BTC, ETH, ADA, SOL, each at most once, also when
\* the question has a coin's full name or both its ticker and its name.
C20_EntitiesCanonicalOnce ==
    Classified =>
        /\ \A i \in 1..Len(analysis.entities) :
              analysis.entities[i] \in {"BTC", "ETH", "ADA", "SOL"}
        /\ \A i, j \in 1..Len(analysis.entities) :
              i < j => CanonicalRank(analysis.entities[i]) < CanonicalRank(analysis.entities[j])

\* what holds of C20: the entities are canonical and in order, with repeats:
\* a symbol is listed once for its ticker and once more for its name
C20_EntitiesCanonicalInOrder ==
    Classified =>
        /\ \A i \in 1..Len(analysis.entities) :
              analysis.entities[i] \in {"BTC", "ETH", "ADA", "SOL"}
        /\ \A i, j \in 1..Len(analysis.entities) :
              i < j => CanonicalRank(analysis.entities[i]) <= CanonicalRank(analysis.entities[j])
        /\ \A e \in {"BTC", "ETH", "ADA", "SOL"} :
              Cardinality({i \in 1..Len(analysis.entities) : analysis.entities[i] = e}) <= 2

C20_TwiceReached ==
    Classified /\ question = "ethereum" /\ analysis.entities = <<"ETH", "ETH">>

C20_TickerAndNameReached ==
    Classified /\ question = "BTC bitcoin" /\ analysis.entities = <<"BTC", "BTC">>

-----------------------------------------------------------------------------
(* Properties of the comparison flag *)

\* C21: the comparison flag of an analysis is True exactly when its intent
\* is 'comparison'; so the price-comparison query (LATEST ON ... ORDER BY
\* symbol, exchange under intent price_analysis) is never generated, and a
\* question classified 'comparison' gets the default LIMIT 10 query.
C21_ComparisonOnlyWithComparisonIntent ==
    /\ Classified =>
          /\ analysis.comparison \in BOOLEAN
          /\ analysis.comparison <=> analysis.intent = "comparison"
    /\ apc = "generated" =>
          /\ ~Contains(sql_query, "ORDER BY symbol, exchange")
          /\ analysis.intent = "price_analysis" =>
                /\ ~Contains(sql_query, "LATEST ON")
                /\ EndsWith(sql_query, "\nORDER BY timestamp DESC\nLIMIT 20\n")
          /\ analysis.intent = "comparison" =>
                /\ StartsWith(sql_query,
                       "\nSELECT symbol, exchange, price, volume, timestamp\nFROM crypto_prices\nWHERE ")
                /\ EndsWith(sql_query, "\nORDER BY timestamp DESC\nLIMIT 10\n")

C21_Witness ==
    /\ apc = "generated" /\ question = "compare bitcoin"
    /\ analysis.intent = "comparison" /\ analysis.comparison = TRUE
    /\ EndsWith(sql_query, " AND symbol IN ('BTC')\nORDER BY timestamp DESC\nLIMIT 10\n")

\* a question with a price keyword and a comparison keyword
C21_PriceWithCompareReached ==
    /\ apc = "generated" /\ question = "price vs"
    /\ analysis.intent = "price_analysis" /\ analysis.comparison = FALSE
    /\ EndsWith(sql_query, "\nLIMIT 20\n")

=============================================================================
